---- MODULE Spec2Model ----
(***************************************************************************)
(* A model of the ViewChild inspection engine: the lifecycle usage scanner *)
(* (isPropertyUsedInMethod), the structural analyzer (isElementStatic),    *)
(* the template resolver (getComponentTemplate), the classifier            *)
(* (checkViewChild), the file inspector (checkViewChilds) and the project  *)
(* inspector with its report builder (inspectProject, buildReport, main).  *)
(*                                                                         *)
(* Source text is modelled as a sequence of lines, a line as a sequence of *)
(* tokens; a regular expression is modelled by what it matches on tokens.  *)
(***************************************************************************)
EXTENDS Integers, Sequences, FiniteSets, TLC

VARIABLES
    tsFile,      \* scanner: the source text, a sequence of lines
    methodName,  \* scanner: the method searched
    scan,        \* scanner: what isPropertyUsedInMethod computed, or NotRun
    html,        \* structural analyzer: the parsed template
    elementName, \* structural analyzer: the template variable searched
    static,      \* structural analyzer: what isElementStatic did, or NotRun
    file,        \* file inspector: the source file on disk and its external template
    insp,        \* file inspector: the running call of checkViewChilds
    previous,    \* file inspector: the result of the previous inspection of file
    runs,        \* file inspector: the inspections of file started so far
    projects,    \* main: the projects, Heracles first; a project is its .ts files
    calls,       \* inspectProject: the call of checkViewChilds of each file
    map,         \* inspectProject: the entries of map, in insertion order
    report,      \* buildReport: the buckets filled and the chunks written
    built,       \* buildReport: how many times it ran for each project
    ppc,         \* inspectProject: where the call for each project stands
    mainPc,      \* main: where it stands
    repo,        \* checkoutRepoAt: the repository at path
    currentBranch, \* checkoutRepoAt: the local of that name
    ran,         \* checkoutRepoAt: the commands tryExec ran, with their results
    cpc          \* checkoutRepoAt: where it stands

scanVars == <<tsFile, methodName, scan>>
staticVars == <<html, elementName, static>>
fileVars == <<file, insp, previous, runs>>
projectVars == <<projects, calls, map, report, built, ppc, mainPc>>
checkoutVars == <<repo, currentBranch, ran, cpc>>
vars == <<tsFile, methodName, scan, html, elementName, static, file, insp, previous, runs,
          projects, calls, map, report, built, ppc, mainPc,
          repo, currentBranch, ran, cpc>>

NotRun == [pc |-> "notRun"]

\* A value that may be absent is a sequence: empty (undefined or null), or the
\* value alone.
Undefined == <<>>
Null == <<>>
Some(v) == <<v>>
The(o) == o[1]
Falsy(o) == o = <<>>
NoToken == ""

(***************************************************************************)
(* Bounds of the model.                                                    *)
(***************************************************************************)
MaxLines == 4
MaxNodes == 3
MaxBindings == 2
MaxRuns == 2
MaxFiles == 2

(***************************************************************************)
(* Generic helpers (lodash).                                               *)
(***************************************************************************)
Range(s) == {s[i] : i \in 1..Len(s)}

Min(S) == CHOOSE x \in S : \A y \in S : x <= y

\* _.indexOf(array, value): the first index (1-based here) holding value, 0 if none
IndexOf(s, v) ==
    IF \E i \in 1..Len(s) : s[i] = v
    THEN Min({i \in 1..Len(s) : s[i] = v})
    ELSE 0

\* _.find over the lines i with from <= i, by predicate index set: first index or 0
FirstIn(S) == IF S = {} THEN 0 ELSE Min(S)

RECURSIVE SumSeq(_)
SumSeq(s) == IF s = <<>> THEN 0 ELSE Head(s) + SumSeq(Tail(s))

(***************************************************************************)
(* The lifecycle usage scanner.                                            *)
(***************************************************************************)
TAB_WIDTH == 4

IsWs(c) == c \in {" ", "\t"}

\* the first position >= i of line that holds no whitespace (Len+1 if none): \s*
RECURSIVE SkipWs(_, _)
SkipWs(line, i) ==
    IF i <= Len(line) /\ IsWs(line[i]) THEN SkipWs(line, i + 1) ELSE i

TokAt(line, i) == IF i >= 1 /\ i <= Len(line) THEN line[i] ELSE NoToken

\* GetMethodStartRegex: name \s* ( [^)]* ) \s* (: \s* \w+ \s*)? {   (unanchored)
\* the token "()" is a parenthesised parameter list, the token "T" a \w+ word
GetMethodStartRegex(line, name) ==
    \E i \in 1..Len(line) :
        /\ line[i] = name
        /\ LET p == SkipWs(line, i + 1)
               b == SkipWs(line, p + 1)
               t == SkipWs(line, b + 1)
               e == SkipWs(line, t + 1)
           IN /\ TokAt(line, p) = "()"
              /\ \/ TokAt(line, b) = "{"
                 \/ TokAt(line, b) = ":" /\ TokAt(line, t) = "T" /\ TokAt(line, e) = "{"

\* _.filter(methodStart, char => /\s/.test(char)) then the reduce: every
\* whitespace character of the line counts, a tab for TAB_WIDTH
EquivalentSpacing(line) ==
    SumSeq([i \in 1..Len(line) |->
              IF line[i] = "\t" THEN TAB_WIDTH ELSE IF line[i] = " " THEN 1 ELSE 0])

\* MethodEndRegex: k literal spaces then "}" (the optional tail matches empty); unanchored
MethodEndRegex(line, k) ==
    \E i \in 1..Len(line) :
        /\ i + k <= Len(line)
        /\ \A j \in i..(i + k - 1) : line[j] = " "
        /\ line[i + k] = "}"

\* the token that spells the access this.<propName>
Use(p) == CASE p = "el" -> "this.el" [] p = "box" -> "this.box" [] OTHER -> "this.?"

\* PropertyUsageRegex: \s*this\.<propName>\b ; the token "this.<p>" is one access
PropertyUsageRegex(line, propName) ==
    \E i \in 1..Len(line) : line[i] = Use(propName)

\* isPropertyUsedInMethod, with the places it found: start the index of the
\* signature line, found the line the search for the method end stopped at, end
\* the index _.indexOf gives for that line.  The steps are the function's, each
\* taking the locals computed before it.
ScanTake(lines, propName, indexOfStart, endFound, indexOfEnd) ==
    \* takeRight(length - (indexOfStart + 1)) then take(indexOfEnd - indexOfStart):
    \* the lines indexOfStart + 1 .. indexOfEnd, none when the count is negative
    [pc |-> "scanned",
     used |-> \E i \in (indexOfStart + 1)..Len(lines) :
                 /\ i <= indexOfStart + (indexOfEnd - indexOfStart)
                 /\ PropertyUsageRegex(lines[i], propName),
     start |-> indexOfStart, found |-> endFound, end |-> indexOfEnd]

ScanEnd(lines, propName, indexOfStart, endFound) ==
    IF endFound = 0
    THEN [pc |-> "noEnd", used |-> FALSE, start |-> indexOfStart, found |-> 0, end |-> 0]
    ELSE ScanTake(lines, propName, indexOfStart, endFound, IndexOf(lines, lines[endFound]))

ScanBody(lines, propName, indexOfStart, equivalentSpacing) ==
    ScanEnd(lines, propName, indexOfStart,
            FirstIn({i \in (indexOfStart + 1)..Len(lines) :
                       MethodEndRegex(lines[i], equivalentSpacing)}))

ScanStart(lines, propName, startFound) ==
    IF startFound = 0
    THEN [pc |-> "noStart", used |-> FALSE, start |-> 0, found |-> 0, end |-> 0]
    ELSE ScanBody(lines, propName, IndexOf(lines, lines[startFound]),
                  EquivalentSpacing(lines[startFound]))

ScanMethod(lines, propName, name) ==
    ScanStart(lines, propName,
              FirstIn({i \in 1..Len(lines) : GetMethodStartRegex(lines[i], name)}))

isPropertyUsedInMethod(lines, propName, name) == ScanMethod(lines, propName, name).used

(***************************************************************************)
(* The structural analyzer.  A parsed template is the parser's tree: nodes *)
(* 1..n, parent[i] < i (0 is the parse root), the children of a node in    *)
(* document order being its children by increasing number.  A node is an   *)
(* element or a text node; an element carries at most one template         *)
(* variable (#ref) and at most one structural attribute.                   *)
(***************************************************************************)
Thrown(kind, message) == [pc |-> "threw", kind |-> kind, message |-> message]
Returned(v) == [pc |-> "returned", value |-> v]

\* the regular expression \s*#<elementName>\s* tested on the raw attributes is a
\* substring test: "#x" is found in the attributes "#xy" as well
HashMatches(ref, name) ==
    \/ ref = name
    \/ name = "x" /\ ref = "xy"

isTheElement(h, i, name) == HashMatches(h.node[i].ref, name)

isConditional(h, i) ==
    LET hasNgIf == h.node[i].attr = "ngIf"
        hasNgFor == h.node[i].attr = "ngFor"
        hasNgSwitch == h.node[i].attr = "ngSwitchCase" \/ h.node[i].attr = "ngSwitchDefault"
    IN hasNgIf \/ hasNgFor \/ hasNgSwitch

\* _.filter(node.childNodes, n => n.nodeType === NodeType.ELEMENT_NODE), node 0 the root
ElementChildren(h, i) == {c \in 1..h.n : h.parent[c] = i /\ h.node[c].type = "element"}

\* containsElement: whether the subtree of node i holds the element, and the
\* value the call leaves in ref.conditional (the search stops at the first find)
RECURSIVE containsElement(_, _, _)
containsElement(h, i, name) ==
    IF isTheElement(h, i, name)
    THEN [found |-> TRUE, conditional |-> isConditional(h, i)]
    ELSE LET holders == {c \in ElementChildren(h, i) : containsElement(h, c, name).found}
         IN IF holders = {}
            THEN [found |-> FALSE, conditional |-> FALSE]
            ELSE LET child == Min(holders)
                 IN [found |-> TRUE,
                     conditional |-> containsElement(h, child, name).conditional
                                       \/ isConditional(h, child)]

isElementStatic(h, name) ==
    IF ~h.valid
    THEN Thrown("Error", "The provided template is invalid")
    ELSE LET holders == {c \in ElementChildren(h, 0) : containsElement(h, c, name).found}
         IN IF holders = {}
            THEN Thrown("ViewChildMissing", "must be in the template")
            ELSE Returned(~containsElement(h, Min(holders), name).conditional)

(***************************************************************************)
(* The enumerations, by their ordinals.                                    *)
(***************************************************************************)
Ok == 0
Warning == 1
Error == 2
Unknown == 3

Static == 1
NonStatic == 2

Construction == 0
OnInit == 1
AfterViewInit == 2
Unspecified == 3

dsToString(staticness) ==
    CASE staticness = 0 -> "Unspecified"
      [] staticness = Static -> "Static"
      [] staticness = NonStatic -> "NonStatic"

lhToString(hook) ==
    CASE hook = Unspecified -> "Unspecified"
      [] hook = AfterViewInit -> "AfterViewInit"
      [] hook = OnInit -> "OnInit"
      [] hook = Construction -> "Construction"

\* of a status that may be undefined: no case of the switch matches undefined
isToString(status) ==
    CASE status = Some(Unknown) -> Some("Unknown")
      [] status = Some(Error) -> Some("Error")
      [] status = Some(Warning) -> Some("Warning")
      [] status = Some(Ok) -> Some("Ok")
      [] OTHER -> Undefined

ViewChildInspectionResult(name, processed, status, notProcessedReason, lineNumber, problems) ==
    [name |-> name, processed |-> processed, status |-> status,
     notProcessedReason |-> notProcessedReason, lineNumber |-> lineNumber,
     problems |-> problems, statusText |-> isToString(Some(status))]

FileInspectionResult(processed, status, notProcessedReason, viewChilds) ==
    [processed |-> processed, status |-> status,
     notProcessedReason |-> notProcessedReason, viewChilds |-> viewChilds,
     statusText |-> isToString(status)]

(***************************************************************************)
(* The classifier.                                                         *)
(***************************************************************************)
\* In a ViewChildInspectionResult status is a number; notProcessedReason,
\* lineNumber and problems may be absent.  In a FileInspectionResult status,
\* notProcessedReason and viewChilds may be absent.

\* the first token of the line that is not whitespace: l.trim() starts with it
FirstToken(line) == TokAt(line, SkipWs(line, 1))

\* the first position >= i of line that holds no space: " *"
RECURSIVE SkipSpaces(_, _)
SkipSpaces(line, i) ==
    IF i <= Len(line) /\ line[i] = " " THEN SkipSpaces(line, i + 1) ELSE i

\* PropDeclarationRegex: <propName> *:
PropDeclarationRegex(line, propName) ==
    \E i \in 1..Len(line) :
        line[i] = propName /\ TokAt(line, SkipSpaces(line, i + 1)) = ":"

\* _.indexOf(lines, _.find(...)) + 1 ; with nothing found _.indexOf gives -1
getViewChildLineNumber(lines, propName) ==
    FirstIn({i \in 1..Len(lines) :
                /\ FirstToken(lines[i]) # "*"
                /\ FirstToken(lines[i]) # "//"
                /\ PropDeclarationRegex(lines[i], propName)})

FirstUsedIn(lines, propName) ==
    IF isPropertyUsedInMethod(lines, propName, "constructor") THEN Construction
    ELSE IF isPropertyUsedInMethod(lines, propName, "ngOnInit") THEN OnInit
    ELSE IF isPropertyUsedInMethod(lines, propName, "ngAfterViewInit") THEN AfterViewInit
    ELSE Unspecified

Problems(current, correct, firstUsedIn, message) ==
    [currentStatus |-> dsToString(current), correctStatus |-> dsToString(correct),
     firstUsedIn |-> lhToString(firstUsedIn), message |-> message]

\* Classify with the comparison of the earliest use off by one phase
Classify_FromInitHook(propName, isDeclaredStatic, isStatic, lineNumber, firstUsedIn) ==
    IF isDeclaredStatic
    THEN IF isStatic
         THEN ViewChildInspectionResult(propName, TRUE, Ok, Undefined, Undefined, Undefined)
         ELSE ViewChildInspectionResult(propName, TRUE,
                  IF firstUsedIn >= OnInit THEN Warning ELSE Error,
                  Undefined, Some(lineNumber),
                  Some(Problems(Static, NonStatic, firstUsedIn,
                                "marked as static but conditional")))
    ELSE IF isStatic
    THEN ViewChildInspectionResult(propName, TRUE, Warning, Undefined, Some(lineNumber),
             Some(Problems(NonStatic, Static, firstUsedIn,
                           "marked as non static but static")))
    ELSE IF firstUsedIn >= OnInit
    THEN ViewChildInspectionResult(propName, TRUE, Ok, Undefined, Undefined, Undefined)
    ELSE ViewChildInspectionResult(propName, TRUE, Error, Undefined, Some(lineNumber),
             Some(Problems(NonStatic, Static, firstUsedIn, "used inside the constructor")))

\* checkViewChild from line 313 on, with its locals
Classify(propName, isDeclaredStatic, isStatic, lineNumber, firstUsedIn) ==
    IF isDeclaredStatic
    THEN IF isStatic
         THEN ViewChildInspectionResult(propName, TRUE, Ok, Undefined, Undefined, Undefined)
         ELSE ViewChildInspectionResult(propName, TRUE,
                  IF firstUsedIn > OnInit THEN Warning ELSE Error,
                  Undefined, Some(lineNumber),
                  Some(Problems(Static, NonStatic, firstUsedIn,
                                "marked as static but conditional")))
    ELSE IF isStatic
    THEN ViewChildInspectionResult(propName, TRUE, Warning, Undefined, Some(lineNumber),
             Some(Problems(NonStatic, Static, firstUsedIn,
                           "marked as non static but static")))
    ELSE IF firstUsedIn > OnInit
    THEN ViewChildInspectionResult(propName, TRUE, Ok, Undefined, Undefined, Undefined)
    ELSE ViewChildInspectionResult(propName, TRUE, Error, Undefined, Some(lineNumber),
             Some(Problems(NonStatic, Static, firstUsedIn,
                           IF firstUsedIn = OnInit THEN "used inside ngOnInit"
                           ELSE "used inside the constructor")))

\* checkViewChild once isElementStatic has returned or thrown
ClassifyFound(lines, isDeclaredStatic, propName, isStatic) ==
    IF isStatic.pc = "threw"
    THEN isStatic
    ELSE Returned(Classify(propName, isDeclaredStatic, isStatic.value,
                           getViewChildLineNumber(lines, propName),
                           FirstUsedIn(lines, propName)))

\* checkViewChild: Returned(a ViewChildInspectionResult), or what isElementStatic threw
\* a childSelector is [quoted, name]: quoted when the text starts with ' or ",
\* name the text between the quotes
checkViewChild(htmlTemplate, lines, childSelector, isDeclaredStatic, propName) ==
    IF ~childSelector.quoted
    THEN Returned(ViewChildInspectionResult(propName, FALSE, Unknown,
                    Some("selected by component class are not supported yet"),
                    Undefined, Undefined))
    ELSE ClassifyFound(lines, isDeclaredStatic, propName,
                       isElementStatic(htmlTemplate, childSelector.name))

(***************************************************************************)
(* The template resolver.  A source file's content is a record of what the *)
(* regular expressions of the inspector find in it:                        *)
(*   nClasses, isAngularComponent, isAngularDirective, viewChildsCount,    *)
(*   decorator  the @Component({...}) parameter block: present or not, and *)
(*              what its templateUrl / template '...' / template `...`     *)
(*              forms hold (Undefined when the form is absent),            *)
(*   bindings   the matches of ViewChildRegex in order, lines the text.    *)
(* A regular expression's exec result is the record of its named groups.   *)
(***************************************************************************)
\* destructuring { groups: { name } } of a match: a name the expression does
\* not define reads as undefined
Group(match, name) ==
    IF name \in DOMAIN The(match) THEN Some(The(match)[name]) ELSE Undefined

NgComponentDecoratorParamsRegex(tsFileContent) ==
    IF tsFileContent.decorator.present
    THEN Some([decoratorParams |-> tsFileContent.decorator])
    ELSE Null

NgComponentTemplateUrlRegex(decoratorParams) ==
    IF decoratorParams.templateUrl # Undefined
    THEN Some([templateUrl |-> The(decoratorParams.templateUrl)])
    ELSE Null

NgComponentTemplateRegex(decoratorParams) ==
    IF decoratorParams.inline # Undefined
    THEN Some([template |-> The(decoratorParams.inline)])
    ELSE Null

NgComponentMultilineTemplateRegex(decoratorParams) ==
    IF decoratorParams.multiline # Undefined
    THEN Some([template |-> The(decoratorParams.multiline)])
    ELSE Null

\* templateUrl.startsWith("/")
IsAbsolute(templateUrl) == templateUrl = "/t.html"

\* getComponentTemplate up to its first suspension: Returned(markup or nothing),
\* or the read of the external template it awaits
getComponentTemplate(tsFileContent) ==
    IF NgComponentDecoratorParamsRegex(tsFileContent) = Null
    THEN Returned(Null)
    ELSE
      LET decoratorParams ==
              The(Group(NgComponentDecoratorParamsRegex(tsFileContent), "decoratorParams"))
      IN IF NgComponentTemplateUrlRegex(decoratorParams) # Null
         THEN LET templateUrl ==
                      The(Group(NgComponentTemplateUrlRegex(decoratorParams), "templateUrl"))
              IN IF IsAbsolute(templateUrl)
                 THEN Returned(Null)
                 ELSE [pc |-> "readFile", templatePath |-> templateUrl]
         ELSE IF NgComponentTemplateRegex(decoratorParams) # Null
         THEN Returned(Group(NgComponentTemplateRegex(decoratorParams), "template"))
         ELSE IF NgComponentMultilineTemplateRegex(decoratorParams) # Null
         THEN Returned(Group(NgComponentMultilineTemplateRegex(decoratorParams),
                             "multilineTemplate"))
         ELSE Returned(Null)

\* fsp.readFile of the external template: its content, or the rejection
ReadTemplateFile(external) ==
    IF external = Undefined
    THEN Thrown("Error", "ENOENT")
    ELSE Returned(Some(The(external)))

(***************************************************************************)
(* The file inspector.                                                     *)
(***************************************************************************)
\* EarlyReturn without the return for a component with no ViewChild
EarlyReturn_NoCountCheck(tsFileContent) ==
    IF tsFileContent.nClasses = 0
    THEN FileInspectionResult(FALSE, Some(Ok), Some("no Typescript class"), Undefined)
    ELSE IF tsFileContent.nClasses > 1
    THEN FileInspectionResult(FALSE, Some(Unknown),
                              Some("more than one Typescript class"), Undefined)
    ELSE IF ~tsFileContent.isAngularComponent /\ ~tsFileContent.isAngularDirective
    THEN FileInspectionResult(FALSE, Some(Ok),
                              Some("neither a Component nor a Directive"), Undefined)
    ELSE NotRun

\* the returns of checkViewChilds that come before the template is resolved
\* (NotRun when none is taken)
EarlyReturn(tsFileContent) ==
    IF tsFileContent.nClasses = 0
    THEN FileInspectionResult(FALSE, Some(Ok), Some("no Typescript class"), Undefined)
    ELSE IF tsFileContent.nClasses > 1
    THEN FileInspectionResult(FALSE, Some(Unknown),
                              Some("more than one Typescript class"), Undefined)
    ELSE IF ~tsFileContent.isAngularComponent /\ ~tsFileContent.isAngularDirective
    THEN FileInspectionResult(FALSE, Some(Ok),
                              Some("neither a Component nor a Directive"), Undefined)
    ELSE IF tsFileContent.viewChildsCount = 0
    THEN FileInspectionResult(FALSE, Some(Ok), Some("no ViewChild properties"), Undefined)
    ELSE NotRun

\* `Error processing - ${err.message}`
ErrorProcessing(message) ==
    CASE message = "The provided template is invalid"
           -> "Error processing - The provided template is invalid"
      [] OTHER -> "Error processing - ?"

\* Caught without the instanceof ViewChildMissing branch
Caught_MissingAsFault(propName, r) ==
    IF r.pc = "returned"
    THEN r.value
    ELSE ViewChildInspectionResult(propName, FALSE, Unknown,
             Some(ErrorProcessing(r.message)), Undefined, Undefined)

\* the catch of the while loop's body: r is what checkViewChild did
Caught(propName, r) ==
    IF r.pc = "returned"
    THEN r.value
    ELSE IF r.kind = "ViewChildMissing"
    THEN ViewChildInspectionResult(propName, FALSE, Warning,
             Some("not in the template, and can therefore be removed"),
             Undefined, Undefined)
    ELSE ViewChildInspectionResult(propName, FALSE, Unknown,
             Some(ErrorProcessing(r.message)), Undefined, Undefined)

\* the body of the while loop for one match: the try and its catch
ClassifyMatch(componentTemplate, lines, m) ==
    Caught(m.propName,
           checkViewChild(componentTemplate, lines, m.childSelector,
                          m.isDeclaredStatic = Some("true"), m.propName))

\* ClassifyLoop with the try around the whole loop: the first exception ends it
RECURSIVE ClassifyLoop_AbortsOnFault(_, _, _, _)
ClassifyLoop_AbortsOnFault(componentTemplate, lines, matches, viewChilds) ==
    IF matches = <<>>
    THEN viewChilds
    ELSE IF checkViewChild(componentTemplate, lines, Head(matches).childSelector,
                           Head(matches).isDeclaredStatic = Some("true"),
                           Head(matches).propName).pc = "threw"
    THEN Append(viewChilds, ClassifyMatch(componentTemplate, lines, Head(matches)))
    ELSE ClassifyLoop_AbortsOnFault(componentTemplate, lines, Tail(matches),
             Append(viewChilds, ClassifyMatch(componentTemplate, lines, Head(matches))))

\* the while loop over the matches of ViewChildRegex, pushing onto viewChilds
RECURSIVE ClassifyLoop(_, _, _, _)
ClassifyLoop(componentTemplate, lines, matches, viewChilds) ==
    IF matches = <<>>
    THEN viewChilds
    ELSE ClassifyLoop(componentTemplate, lines, Tail(matches),
                      Append(viewChilds, ClassifyMatch(componentTemplate, lines, Head(matches))))

\* _.chain(viewChilds).map(vc => vc.status).max().value(): undefined of an empty list
MaxStatus(viewChilds) ==
    IF viewChilds = <<>>
    THEN Undefined
    ELSE Some(CHOOSE m \in {viewChilds[i].status : i \in 1..Len(viewChilds)} :
                 \A i \in 1..Len(viewChilds) : viewChilds[i].status <= m)

\* the return of checkViewChilds after the loop
Evaluated(viewChilds) ==
    FileInspectionResult(TRUE, MaxStatus(viewChilds), Undefined, Some(viewChilds))

\* checkViewChilds from the resolved template on
AfterTemplate(tsFileContent, componentTemplate) ==
    IF Falsy(componentTemplate)
    THEN FileInspectionResult(FALSE, Some(Unknown),
                              Some("Could not retrieve the template"), Undefined)
    ELSE Evaluated(ClassifyLoop(The(componentTemplate), tsFileContent.lines,
                                tsFileContent.bindings, <<>>))

\* One inspection is a record: pc, the componentTemplate once resolved, the
\* result once returned, the error once rejected.  A source file f on disk is
\* [content, external]: Undefined where the read fails.
Inspection(pc, template, result) == [pc |-> pc, template |-> template, result |-> result]

NotStarted == Inspection("notStarted", Undefined, Undefined)

\* the call: runs up to the await of fsp.readFile(filePath)
CallCheckViewChilds == Inspection("readingSource", Undefined, Undefined)

\* the read of the source settles; the function runs on to its next await
SourceRead(f) ==
    IF f.content = Undefined
    THEN Inspection("rejected", Undefined, Undefined)
    ELSE IF EarlyReturn(The(f.content)) # NotRun
    THEN Inspection("resolved", Undefined, Some(EarlyReturn(The(f.content))))
    ELSE LET t == getComponentTemplate(The(f.content))
         IN IF t.pc = "readFile"
            THEN Inspection("readingTemplate", Undefined, Undefined)
            ELSE Inspection("awaitingTemplate", t.value, Undefined)

\* the read of the external template settles
TemplateRead(f) ==
    LET t == ReadTemplateFile(f.external)
    IN IF t.pc = "threw"
       THEN Inspection("rejected", Undefined, Undefined)
       ELSE Inspection("awaitingTemplate", t.value, Undefined)

\* checkViewChilds resumes with the template and returns
TemplateAwaited(f, call) ==
    Inspection("resolved", call.template,
               Some(AfterTemplate(The(f.content), call.template)))

(***************************************************************************)
(* The report builder.  map is the sequence of the entries of the Map in   *)
(* insertion order, an entry [file, result]; a report is the four arrays   *)
(* the forEach fills and the chunks written to the stream.                 *)
(***************************************************************************)
\* the files the switch of the forEach pushes onto the array of one status
Bucket(entries, status) ==
    SelectSeq(entries, LAMBDA e : e.result.status = Some(status))

\* !status : true of undefined and of 0
Not(status) == status = Undefined \/ status = Some(0)

\* _.first(files)?.result.status
FirstStatus(files) == IF files = <<>> THEN Undefined ELSE files[1].result.status

printFiles(files) ==
    IF Not(FirstStatus(files))
    THEN <<>>
    ELSE << [chunk |-> "dump", status |-> isToString(FirstStatus(files)), files |-> files] >>

Title(section) == << [chunk |-> "title", status |-> Some(section), files |-> <<>>] >>

buildReport(entries) ==
    [unprocessed |-> Bucket(entries, Unknown),
     errors |-> Bucket(entries, Error),
     warnings |-> Bucket(entries, Warning),
     ok |-> Bucket(entries, Ok),
     written |-> Title("Repository")
                   \o Title("not been checked") \o printFiles(Bucket(entries, Unknown))
                   \o Title("errors") \o printFiles(Bucket(entries, Error))
                   \o Title("warnings") \o printFiles(Bucket(entries, Warning))
                   \o Title("no problems") \o printFiles(Bucket(entries, Ok))]

NotBuilt == [unprocessed |-> <<>>, errors |-> <<>>, warnings |-> <<>>, ok |-> <<>>,
             written |-> <<>>]

(***************************************************************************)
(* Source lines the scanner is exercised on.                               *)
(***************************************************************************)
LineCatalogue ==
    { <<" ", "ngOnInit", "()", "{">>,                  \* indent 1, no inner space
      <<" ", "ngOnInit", "()", ":", " ", "T", " ", "{">>, \* indent 1, ": void {"
      <<" ", "constructor", "()", "{">>,
      <<" ", "}">>,                                    \* brace at indent 1
      <<" ", " ", "}">>,                               \* nested brace at indent 2
      <<" ", " ", " ", "}", ";">>,                     \* nested brace at indent 3
      <<" ", " ", Use("el"), ";">>,
      <<" ", " ", "if", "()", " ", "{">> }

ScanIdle == tsFile = <<>> /\ methodName = NoToken /\ scan = NotRun
StaticIdle == html = Undefined /\ elementName = NoToken /\ static = NotRun
FileIdle == file = Undefined /\ insp = NotRun /\ previous = Undefined /\ runs = 0
ProjectIdle ==
    /\ projects = <<>> /\ calls = <<>> /\ map = <<>> /\ report = <<>>
    /\ built = <<>> /\ ppc = <<>> /\ mainPc = "notRun"
CheckoutIdle == repo = Undefined /\ currentBranch = Undefined /\ ran = <<>> /\ cpc = "notRun"

ScanInit ==
    /\ CheckoutIdle
    /\ StaticIdle
    /\ FileIdle
    /\ ProjectIdle
    /\ tsFile \in UNION {[1..n -> LineCatalogue] : n \in 1..MaxLines}
    /\ methodName \in {"constructor", "ngOnInit"}
    /\ scan = NotRun

Scan ==
    /\ scan = NotRun
    /\ scan' = ScanMethod(tsFile, "el", methodName)
    /\ UNCHANGED <<tsFile, methodName, staticVars, fileVars, projectVars, checkoutVars>>

ScanNext == Scan

SpecScan == ScanInit /\ [][ScanNext]_vars

(***************************************************************************)
(* Templates the structural analyzer is exercised on.                      *)
(***************************************************************************)
StructuralAttrs == {"none", "ngIf", "ngFor", "ngSwitchCase", "ngSwitchDefault"}

TextNode == [type |-> "text", ref |-> "none", attr |-> "none"]
ElementNodes == [type : {"element"}, ref : {"none", "x", "xy"}, attr : StructuralAttrs]

\* a text node has no children
WellFormed(h) == \A i \in 1..h.n : h.parent[i] # 0 => h.node[h.parent[i]].type = "element"

StaticInit ==
    /\ CheckoutIdle
    /\ ScanIdle
    /\ FileIdle
    /\ ProjectIdle
    /\ \E n \in 1..MaxNodes, v \in BOOLEAN :
         \E p \in [1..n -> 0..(n - 1)], nd \in [1..n -> ElementNodes \cup {TextNode}] :
            /\ \A i \in 1..n : p[i] < i
            /\ html = [valid |-> v, n |-> n, parent |-> p, node |-> nd]
            /\ WellFormed(html)
    /\ elementName \in {"x", "xy"}
    /\ static = NotRun

Analyze ==
    /\ static = NotRun
    /\ static' = isElementStatic(html, elementName)
    /\ UNCHANGED <<html, elementName, scanVars, fileVars, projectVars, checkoutVars>>

StaticNext == Analyze

SpecStatic == StaticInit /\ [][StaticNext]_vars

(***************************************************************************)
(* Source files the file inspector is exercised on.                        *)
(***************************************************************************)
Node(ref, attr) == [type |-> "element", ref |-> ref, attr |-> attr]
Tree(valid, parent, node) ==
    [valid |-> valid, n |-> Len(node), parent |-> parent, node |-> node]

TemplateCatalogue ==
    { Tree(TRUE, <<0>>, <<Node("x", "none")>>),            \* <div #x>
      Tree(TRUE, <<0>>, <<Node("x", "ngIf")>>),            \* <div *ngIf #x>
      Tree(TRUE, <<0, 1, 2>>,                              \* <div><span *ngFor><b #x>
           <<Node("none", "none"), Node("none", "ngFor"), Node("x", "none")>>),
      Tree(TRUE, <<0, 1>>,                                 \* <div><p #x>
           <<Node("none", "none"), Node("x", "none")>>),
      Tree(TRUE, <<0>>, <<Node("none", "none")>>),         \* <div>: no #x
      Tree(FALSE, <<0>>, <<Node("x", "none")>>),           \* <div #x> left open
      Tree(FALSE, <<0>>, <<Node("none", "ngIf")>>) }       \* <div *ngIf> left open

DeclLine(p) == <<" ", "@ViewChild", "()", " ", p, ":", " ", "T", ";">>
SigLine(m) == <<" ", m, "()", " ", "{">>
UseLine(p) == <<" ", " ", " ", Use(p), ";">>
CloseLine == <<" ", " ", "}">>

PropNames == <<"el", "box", "list", "menu">>

\* a class: the declarations, optionally an empty constructor, then one method
\* whose body reads the properties of uses
Source(withConstructor, m, uses) ==
    <<DeclLine("el"), DeclLine("box")>>
      \o (IF withConstructor THEN <<SigLine("constructor"), CloseLine>> ELSE <<>>)
      \o (IF m = "none" THEN <<>>
          ELSE <<SigLine(m)>> \o [i \in 1..Len(uses) |-> UseLine(uses[i])] \o <<CloseLine>>)

Sources ==
    { Source(FALSE, m, u) :
        m \in {"constructor", "ngOnInit", "ngAfterViewInit"},
        u \in {<<>>, <<"el">>, <<"box">>, <<"el", "box">>} }
      \cup { Source(FALSE, "none", <<>>),
             Source(TRUE, "ngOnInit", <<"el">>),
             Source(TRUE, "ngAfterViewInit", <<"el", "box">>) }

Selectors == { [quoted |-> TRUE, name |-> "x"], [quoted |-> FALSE, name |-> "X"] }

\* the matches of ViewChildRegex: the i-th declares the i-th property
Matches(n) ==
    { [i \in 1..n |-> [childSelector |-> sel[i], isDeclaredStatic |-> dec[i],
                        propName |-> PropNames[i]]] :
        sel \in [1..n -> Selectors],
        dec \in [1..n -> {Some("true"), Some("false"), Undefined}] }

NoDecorator ==
    [present |-> FALSE, templateUrl |-> Undefined, inline |-> Undefined,
     multiline |-> Undefined]

Content(nClasses, component, directive, count, decorator, bindings, lines) ==
    [nClasses |-> nClasses, isAngularComponent |-> component,
     isAngularDirective |-> directive, viewChildsCount |-> count,
     decorator |-> decorator, bindings |-> bindings, lines |-> lines]

\* files checkViewChilds returns for before it looks for the template
SkippedFiles ==
    { [content |-> Some(Content(n, c, d, k, NoDecorator, <<>>, <<>>)), external |-> Undefined] :
        n \in 0..2, c \in BOOLEAN, d \in BOOLEAN, k \in 0..1 }

\* a file with a template, inline or in a file beside the source; count is
\* the number of @ViewChild( annotations spotted
InspectedFile(ext, h, lines, count, bindings) ==
    [content |->
        Some(Content(1, TRUE, FALSE, count,
                     [present |-> TRUE,
                      templateUrl |-> IF ext THEN Some("./t.html") ELSE Undefined,
                      inline |-> IF ext THEN Undefined ELSE Some(h),
                      multiline |-> Undefined],
                     bindings, lines)),
     external |-> IF ext THEN Some(h) ELSE Undefined]

InlineMarkup == Tree(TRUE, <<0>>, <<Node("x", "none")>>)
MultilineMarkup == Tree(TRUE, <<0>>, <<Node("x", "ngIf")>>)
ExternalMarkup == Tree(TRUE, <<0, 1>>, <<Node("none", "none"), Node("x", "none")>>)

\* components with one binding and every combination of the three template
\* forms, each form with a markup of its own; the file a relative templateUrl
\* names exists or not; and the source file whose read fails
ResolverFiles ==
    LET b == [childSelector |-> [quoted |-> TRUE, name |-> "x"],
              isDeclaredStatic |-> Undefined, propName |-> "el"]
    IN { [content |-> Some(Content(1, TRUE, FALSE, 1,
                                   [present |-> TRUE, templateUrl |-> u, inline |-> i,
                                    multiline |-> m],
                                   <<b>>, Source(FALSE, "none", <<>>))),
          external |-> e] :
           u \in {Undefined, Some("/t.html"), Some("./t.html"), Some("../t.html")},
           i \in {Undefined, Some(InlineMarkup)},
           m \in {Undefined, Some(MultilineMarkup)},
           e \in {Undefined, Some(ExternalMarkup)} }
       \cup { [content |-> Some(Content(1, TRUE, FALSE, 1, NoDecorator, <<b>>,
                                        Source(FALSE, "none", <<>>))),
               external |-> Undefined],
              [content |-> Undefined, external |-> Undefined] }

FileInit ==
    /\ CheckoutIdle
    /\ ScanIdle
    /\ StaticIdle
    /\ ProjectIdle
    /\ \/ file \in SkippedFiles \cup ResolverFiles
       \/ \E ext \in BOOLEAN, h \in TemplateCatalogue, l \in Sources, n \in 0..MaxBindings :
            \E b \in Matches(n) :
               \* an annotation that is spotted but matches no binding pattern
               \E k \in (IF n = 0 THEN {1} ELSE {0}) :
                  file = InspectedFile(ext, h, l, n + k, b)
    /\ insp = NotStarted
    /\ previous = Undefined
    /\ runs = 1

FileCall ==
    /\ insp.pc = "notStarted"
    /\ insp' = CallCheckViewChilds
    /\ UNCHANGED <<file, previous, runs, scanVars, staticVars, projectVars, checkoutVars>>

FileSourceRead ==
    /\ insp.pc = "readingSource"
    /\ insp' = SourceRead(file)
    /\ UNCHANGED <<file, previous, runs, scanVars, staticVars, projectVars, checkoutVars>>

FileTemplateRead ==
    /\ insp.pc = "readingTemplate"
    /\ insp' = TemplateRead(file)
    /\ UNCHANGED <<file, previous, runs, scanVars, staticVars, projectVars, checkoutVars>>

FileTemplateAwaited ==
    /\ insp.pc = "awaitingTemplate"
    /\ insp' = TemplateAwaited(file, insp)
    /\ UNCHANGED <<file, previous, runs, scanVars, staticVars, projectVars, checkoutVars>>

\* the unchanged file is inspected again
Reinspect ==
    /\ insp.pc \in {"resolved", "rejected"}
    /\ runs < MaxRuns
    /\ previous' = insp.result
    /\ insp' = NotStarted
    /\ runs' = runs + 1
    /\ UNCHANGED <<file, scanVars, staticVars, projectVars, checkoutVars>>

FileNext ==
    \/ FileCall
    \/ FileSourceRead
    \/ FileTemplateRead
    \/ FileTemplateAwaited
    \/ Reinspect

SpecFile == FileInit /\ [][FileNext]_vars

(***************************************************************************)
(* Projects main is exercised on, and main.                                *)
(***************************************************************************)
StringSelector == [quoted |-> TRUE, name |-> "x"]
Binding(selector, declared, propName) ==
    [childSelector |-> selector, isDeclaredStatic |-> declared, propName |-> propName]

\* the files a project may hold, in the order getAllFiles lists them
FileCatalogue ==
    << \* one binding, declared static on a static element: Ok
       InspectedFile(FALSE, InlineMarkup, Source(FALSE, "none", <<>>), 1,
                     <<Binding(StringSelector, Some("true"), "el")>>),
       \* two bindings on a static element, one declared static, one not: Warning
       InspectedFile(FALSE, InlineMarkup, Source(FALSE, "none", <<>>), 2,
                     <<Binding(StringSelector, Some("true"), "el"),
                       Binding(StringSelector, Undefined, "box")>>),
       \* a conditional element read in the constructor: Error
       InspectedFile(TRUE, MultilineMarkup, Source(FALSE, "constructor", <<"el">>), 1,
                     <<Binding(StringSelector, Undefined, "el")>>),
       \* a binding selected by component class: Unknown
       InspectedFile(FALSE, InlineMarkup, Source(FALSE, "none", <<>>), 1,
                     <<Binding([quoted |-> FALSE, name |-> "X"], Undefined, "el")>>),
       \* no class
       [content |-> Some(Content(0, FALSE, FALSE, 0, NoDecorator, <<>>, <<>>)),
        external |-> Undefined],
       \* an annotation spotted that matches no binding pattern
       InspectedFile(FALSE, InlineMarkup, Source(FALSE, "none", <<>>), 1, <<>>),
       \* a source file whose read fails
       [content |-> Undefined, external |-> Undefined],
       \* a component whose external template file does not exist
       [content |-> InspectedFile(TRUE, InlineMarkup, Source(FALSE, "none", <<>>), 1,
                        <<Binding(StringSelector, Undefined, "el")>>).content,
        external |-> Undefined] >>

\* the files of a set of catalogue entries, in catalogue order
RECURSIVE FilesOf(_)
FilesOf(S) ==
    IF S = {} THEN <<>>
    ELSE <<FileCatalogue[Min(S)]>> \o FilesOf(S \ {Min(S)})

ProjectSets == {S \in SUBSET (1..Len(FileCatalogue)) : Cardinality(S) <= MaxFiles}

ProjectIds == 1..Len(projects)
FileIds(p) == 1..Len(projects[p])

ProjectInit ==
    /\ CheckoutIdle
    /\ ScanIdle
    /\ StaticIdle
    /\ FileIdle
    /\ \E heracles \in ProjectSets :
          \/ projects = <<FilesOf(heracles)>>
          \/ \E hydra \in ProjectSets : projects = <<FilesOf(heracles), FilesOf(hydra)>>
    /\ calls = [p \in ProjectIds |-> [i \in FileIds(p) |-> NotStarted]]
    /\ map = [p \in ProjectIds |-> <<>>]
    /\ report = [p \in ProjectIds |-> NotBuilt]
    /\ built = [p \in ProjectIds |-> 0]
    /\ ppc = [p \in ProjectIds |-> "notStarted"]
    /\ mainPc = "start"

\* inspectProject up to its await: _.map starts checkViewChilds for every file
StartAll(p) == [i \in FileIds(p) |-> CallCheckViewChilds]

\* main calls inspectProject for Heracles and awaits it
MainInspectHeracles ==
    /\ mainPc = "start"
    /\ calls' = [calls EXCEPT ![1] = StartAll(1)]
    /\ ppc' = [ppc EXCEPT ![1] = "awaiting"]
    /\ mainPc' = "awaitingHeracles"
    /\ UNCHANGED <<projects, map, report, built, scanVars, staticVars, fileVars, checkoutVars>>

\* the read of a source file settles
ProjectSourceRead(p, i) ==
    /\ calls[p][i].pc = "readingSource"
    /\ calls' = [calls EXCEPT ![p][i] = SourceRead(projects[p][i])]
    /\ UNCHANGED <<projects, map, report, built, ppc, mainPc, scanVars, staticVars, fileVars, checkoutVars>>

\* the read of an external template settles
ProjectTemplateRead(p, i) ==
    /\ calls[p][i].pc = "readingTemplate"
    /\ calls' = [calls EXCEPT ![p][i] = TemplateRead(projects[p][i])]
    /\ UNCHANGED <<projects, map, report, built, ppc, mainPc, scanVars, staticVars, fileVars, checkoutVars>>

\* checkViewChilds resumes with the template and returns its verdict
ProjectTemplateAwaited(p, i) ==
    /\ calls[p][i].pc = "awaitingTemplate"
    /\ calls' = [calls EXCEPT ![p][i] = TemplateAwaited(projects[p][i], calls[p][i])]
    /\ UNCHANGED <<projects, map, report, built, ppc, mainPc, scanVars, staticVars, fileVars, checkoutVars>>

\* .then(result => map.set(tsFile, result))
Then(p, i) ==
    /\ calls[p][i].pc = "resolved"
    /\ calls' = [calls EXCEPT ![p][i].pc = "stored"]
    /\ map' = [map EXCEPT ![p] = Append(@, [file |-> i, result |-> The(calls[p][i].result)])]
    /\ UNCHANGED <<projects, report, built, ppc, mainPc, scanVars, staticVars, fileVars, checkoutVars>>

\* Promise.all resolves: inspectProject resumes and builds the report
AllResolved(p) ==
    /\ ppc[p] = "awaiting"
    /\ \A i \in FileIds(p) : calls[p][i].pc = "stored"
    /\ report' = [report EXCEPT ![p] = buildReport(map[p])]
    /\ built' = [built EXCEPT ![p] = @ + 1]
    /\ ppc' = [ppc EXCEPT ![p] = "done"]
    /\ UNCHANGED <<projects, calls, map, mainPc, scanVars, staticVars, fileVars, checkoutVars>>

\* Promise.all rejects with the first rejection: the await in inspectProject throws
AnyRejected(p) ==
    /\ ppc[p] = "awaiting"
    /\ \E i \in FileIds(p) : calls[p][i].pc = "rejected"
    /\ ppc' = [ppc EXCEPT ![p] = "rejected"]
    /\ UNCHANGED <<projects, calls, map, report, built, mainPc, scanVars, staticVars, fileVars, checkoutVars>>

\* main resumes after Heracles and calls inspectProject for every Hydra project
\* without awaiting any
MainInspectHydra ==
    /\ mainPc = "awaitingHeracles"
    /\ ppc[1] = "done"
    /\ calls' = [p \in ProjectIds |-> IF p = 1 THEN calls[p] ELSE StartAll(p)]
    /\ ppc' = [p \in ProjectIds |-> IF p = 1 THEN ppc[p] ELSE "awaiting"]
    /\ mainPc' = "returned"
    /\ UNCHANGED <<projects, map, report, built, scanVars, staticVars, fileVars, checkoutVars>>

\* the await of inspectProject for Heracles throws: main rejects
MainRejected ==
    /\ mainPc = "awaitingHeracles"
    /\ ppc[1] = "rejected"
    /\ mainPc' = "rejected"
    /\ UNCHANGED <<projects, calls, map, report, built, ppc, scanVars, staticVars, fileVars, checkoutVars>>

Next ==
    \/ MainInspectHeracles
    \/ \E p \in ProjectIds : \E i \in FileIds(p) :
          \/ ProjectSourceRead(p, i)
          \/ ProjectTemplateRead(p, i)
          \/ ProjectTemplateAwaited(p, i)
          \/ Then(p, i)
    \/ \E p \in ProjectIds : AllResolved(p) \/ AnyRejected(p)
    \/ MainInspectHydra
    \/ MainRejected

Spec == ProjectInit /\ [][Next]_vars

(***************************************************************************)
(* The branch switcher.  A repository is the branch it is on and whether   *)
(* its working tree holds pending changes; a git command run by execSync   *)
(* either succeeds or throws.                                              *)
(***************************************************************************)
targetBranch == "target"
fallbackBranch == "fallback"

Repo(branch, pending) == [branch |-> branch, pending |-> pending]

\* tryExec: runs the action and returns whether it did not throw; the call is
\* recorded with what it returned
tryExec(command, ok) == Append(ran, [command |-> command, ok |-> ok])

CheckoutInit ==
    /\ ScanIdle
    /\ StaticIdle
    /\ FileIdle
    /\ ProjectIdle
    /\ \E branch \in {targetBranch, fallbackBranch, "other"}, pending \in BOOLEAN :
          repo = Repo(branch, pending)
    /\ currentBranch = Undefined
    /\ ran = <<>>
    /\ cpc = "start"

\* git branch --show-current, and the return when the repo is on the target
ShowCurrent ==
    /\ cpc = "start"
    /\ currentBranch' = Some(repo.branch)
    /\ cpc' = IF repo.branch = targetBranch THEN "returned" ELSE "reset"
    /\ UNCHANGED <<repo, ran, scanVars, staticVars, fileVars, projectVars>>

\* tryExec(git reset --hard): the result is not looked at
Reset ==
    /\ cpc = "reset"
    /\ \E ok \in BOOLEAN :
          /\ ran' = tryExec("reset", ok)
          /\ repo' = IF ok THEN Repo(repo.branch, FALSE) ELSE repo
    /\ cpc' = "fetch"
    /\ UNCHANGED <<currentBranch, scanVars, staticVars, fileVars, projectVars>>

\* tryExec(git fetch): the result is not looked at
Fetch ==
    /\ cpc = "fetch"
    /\ \E ok \in BOOLEAN : ran' = tryExec("fetch", ok)
    /\ cpc' = "checkout"
    /\ UNCHANGED <<repo, currentBranch, scanVars, staticVars, fileVars, projectVars>>

\* checkoutOk = tryExec(git checkout targetBranch)
Checkout ==
    /\ cpc = "checkout"
    /\ \E checkoutOk \in BOOLEAN :
          /\ ran' = tryExec("checkout", checkoutOk)
          /\ repo' = IF checkoutOk THEN Repo(targetBranch, repo.pending) ELSE repo
          /\ cpc' = IF ~checkoutOk THEN "fallback" ELSE "pull"
    /\ UNCHANGED <<currentBranch, scanVars, staticVars, fileVars, projectVars>>

\* fallbackCheckoutOk = tryExec(git checkout fallbackBranch), and the return
\* when it failed
FallbackCheckout ==
    /\ cpc = "fallback"
    /\ \E fallbackCheckoutOk \in BOOLEAN :
          /\ ran' = tryExec("fallback", fallbackCheckoutOk)
          /\ repo' = IF fallbackCheckoutOk THEN Repo(fallbackBranch, repo.pending) ELSE repo
          /\ cpc' = IF ~fallbackCheckoutOk THEN "returned" ELSE "pull"
    /\ UNCHANGED <<currentBranch, scanVars, staticVars, fileVars, projectVars>>

\* tryExec(git pull), and the return
Pull ==
    /\ cpc = "pull"
    /\ \E ok \in BOOLEAN : ran' = tryExec("pull", ok)
    /\ cpc' = "returned"
    /\ UNCHANGED <<repo, currentBranch, scanVars, staticVars, fileVars, projectVars>>

CheckoutNext ==
    \/ ShowCurrent
    \/ Reset
    \/ Fetch
    \/ Checkout
    \/ FallbackCheckout
    \/ Pull

SpecCheckout == CheckoutInit /\ [][CheckoutNext]_vars

(***************************************************************************)
(* What the boundary heuristic is documented to find.                      *)
(***************************************************************************)
\* the width of the whitespace a line starts with, a tab counted TAB_WIDTH
RECURSIVE LeadingWidth(_)
LeadingWidth(line) ==
    IF line # <<>> /\ IsWs(Head(line))
    THEN (IF Head(line) = "\t" THEN TAB_WIDTH ELSE 1) + LeadingWidth(Tail(line))
    ELSE 0

\* the line is nothing but a closing brace, optionally followed by a semicolon
IsLoneBrace(line) ==
    LET b == SkipWs(line, 1)
        r == SkipWs(line, b + 1)
    IN /\ TokAt(line, b) = "}"
       /\ \/ r = Len(line) + 1
          \/ TokAt(line, r) = ";" /\ SkipWs(line, r + 1) = Len(line) + 1

\* the first line after start that is a lone brace at the indentation of line start
AlignedBraceAfter(lines, start) ==
    FirstIn({i \in (start + 1)..Len(lines) :
                IsLoneBrace(lines[i]) /\ LeadingWidth(lines[i]) = LeadingWidth(lines[start])})

\* C3: whenever the scanner found the method's signature line, the boundary it
\* settles on is the first later line that is exactly a closing brace (with an
\* optional semicolon) at the signature line's own leading indentation, and so
\* never the closing brace of a nested block at deeper indentation.
C3_BoundaryIsAlignedBrace ==
    (scan.pc \in {"noEnd", "scanned"}) =>
        /\ scan.found = AlignedBraceAfter(tsFile, scan.start)
        /\ scan.found # 0 =>
              LeadingWidth(tsFile[scan.found]) = LeadingWidth(tsFile[scan.start])

(***************************************************************************)
(* What the structural analyzer is documented to compute.                  *)
(***************************************************************************)
\* the element nodes of the subtree of i in document order (depth first)
RECURSIVE Preorder(_, _)
RECURSIVE PreorderAll(_, _, _)
Preorder(h, i) == <<i>> \o PreorderAll(h, ElementChildren(h, i), 0)
PreorderAll(h, S, after) ==
    LET rest == {c \in S : c > after}
    IN IF rest = {} THEN <<>>
       ELSE Preorder(h, Min(rest)) \o PreorderAll(h, S, Min(rest))

\* the first element in document order that carries the template variable, or 0
MatchedElement(h, name) ==
    LET order == PreorderAll(h, ElementChildren(h, 0), 0)
        hits == {k \in 1..Len(order) : isTheElement(h, order[k], name)}
    IN IF hits = {} THEN 0 ELSE order[Min(hits)]

\* node i and its ancestors up to the element directly under the parse root
RECURSIVE SelfAndAncestors(_, _)
SelfAndAncestors(h, i) == IF i = 0 THEN {} ELSE {i} \cup SelfAndAncestors(h, h.parent[i])

\* C2: when the analyzer returns for a template that holds the element, it
\* reports not static exactly when the matched element or any of its ancestors,
\* the top-level element under the parse root included, carries ngIf, ngFor,
\* ngSwitchCase or ngSwitchDefault.
C2_ConditionalIffSelfOrAnyAncestor ==
    (static.pc = "returned") =>
        (static.value = FALSE
           <=> \E a \in SelfAndAncestors(html, MatchedElement(html, elementName)) :
                  html.node[a].attr \in {"ngIf", "ngFor", "ngSwitchCase", "ngSwitchDefault"})

(***************************************************************************)
(* Properties of the file inspector, stated on the file and its verdict.   *)
(***************************************************************************)
FileContent == The(file.content)
FileResult == The(insp.result)

\* the inspection returned a verdict with a list of binding verdicts
EvaluatedFile == insp.pc = "resolved" /\ FileResult.viewChilds # Undefined
BindingVerdicts == The(FileResult.viewChilds)

\* the element nodes of the template that carry the template variable
Carriers(h, name) ==
    {i \in 1..h.n : h.node[i].type = "element" /\ HashMatches(h.node[i].ref, name)}

\* the declared mode of a match
DeclaredMode(m) ==
    IF m.isDeclaredStatic = Some("true") THEN "Early"
    ELSE IF m.isDeclaredStatic = Some("false") THEN "Late"
    ELSE "Unspecified"

LaterThanInitHook(U) == U \in {AfterViewInit, Unspecified}

\* the decision table of the classifier
DecisionTable(D, S, U) ==
    CASE D = "Early" /\ S -> Ok
      [] D = "Early" /\ ~S -> IF LaterThanInitHook(U) THEN Warning ELSE Error
      [] D \in {"Late", "Unspecified"} /\ S -> Warning
      [] D \in {"Late", "Unspecified"} /\ ~S -> IF LaterThanInitHook(U) THEN Ok ELSE Error

\* the i-th binding is selected by a string and its element is found in the template
TargetFound(i) ==
    /\ FileContent.bindings[i].childSelector.quoted
    /\ The(insp.template).valid
    /\ Carriers(The(insp.template), FileContent.bindings[i].childSelector.name) # {}

\* C1: for every string-selected binding whose target element is found, the
\* status of its verdict is the decision table's entry for the declared mode D
\* (Unspecified treated as Late), the staticness S the structural analyzer
\* reports and the earliest-use phase U the lifecycle scanner reports.
C1_StatusFollowsDecisionTable ==
    EvaluatedFile =>
        \A i \in 1..Len(FileContent.bindings) :
            TargetFound(i) =>
                BindingVerdicts[i].status =
                    DecisionTable(DeclaredMode(FileContent.bindings[i]),
                                  isElementStatic(The(insp.template),
                                      FileContent.bindings[i].childSelector.name).value,
                                  FirstUsedIn(FileContent.lines,
                                              FileContent.bindings[i].propName))

\* a binding declared Early on a conditional element, first read in
\* ngAfterViewInit, was given Warning
C1_Witness ==
    /\ EvaluatedFile
    /\ \E i \in 1..Len(FileContent.bindings) :
          /\ TargetFound(i)
          /\ DeclaredMode(FileContent.bindings[i]) = "Early"
          /\ FirstUsedIn(FileContent.lines, FileContent.bindings[i].propName) = AfterViewInit
          /\ BindingVerdicts[i].status = Warning

\* the i-th binding is selected by a string that names no element of the template
TargetMissing(i) ==
    /\ FileContent.bindings[i].childSelector.quoted
    /\ Carriers(The(insp.template), FileContent.bindings[i].childSelector.name) = {}

IsRemovableWarning(vc) ==
    /\ vc.status = Warning
    /\ ~vc.processed
    /\ vc.notProcessedReason = Some("not in the template, and can therefore be removed")
    /\ vc.problems = Undefined

\* C6 as stated: every binding with a string selector whose template variable
\* matches no element of the template gets exactly Warning, not evaluated, with
\* the "not in the template, can be removed" reason and no diagnostic.
C6_MissingTargetIsWarning ==
    EvaluatedFile =>
        \A i \in 1..Len(FileContent.bindings) :
            TargetMissing(i) => IsRemovableWarning(BindingVerdicts[i])

\* C6 amended: the same, for templates the parser reports valid; in a template
\* it reports invalid the binding gets Unknown, not evaluated, whatever it names.
C6_MissingTargetInValidTemplateIsWarning ==
    EvaluatedFile =>
        \A i \in 1..Len(FileContent.bindings) :
            /\ TargetMissing(i) /\ The(insp.template).valid
                  => IsRemovableWarning(BindingVerdicts[i])
            /\ TargetMissing(i) /\ ~The(insp.template).valid
                  => /\ BindingVerdicts[i].status = Unknown
                     /\ ~BindingVerdicts[i].processed
                     /\ BindingVerdicts[i].problems = Undefined

\* a binding declared Early and read in the constructor, whose element is not
\* in the valid template, was given the removable Warning
C6_Witness ==
    /\ EvaluatedFile
    /\ \E i \in 1..Len(FileContent.bindings) :
          /\ TargetMissing(i)
          /\ The(insp.template).valid
          /\ DeclaredMode(FileContent.bindings[i]) = "Early"
          /\ \E k \in 1..Len(FileContent.lines) :
                PropertyUsageRegex(FileContent.lines[k], FileContent.bindings[i].propName)
          /\ IsRemovableWarning(BindingVerdicts[i])

IsSkippedOk(r) ==
    /\ r.status = Some(Ok)
    /\ ~r.processed
    /\ r.viewChilds = Undefined

SameOnReinspection ==
    (insp.pc = "resolved" /\ runs > 1) => insp.result = previous

\* C8 as stated: a file with zero class declarations, or whose class has no
\* component/directive annotation, or with zero query-binding annotations, gets
\* Ok, not evaluated, no bindings list, and the same verdict when re-inspected.
C8_SkippedFilesAreOk ==
    /\ insp.pc = "resolved"
    /\ \/ FileContent.nClasses = 0
       \/ FileContent.nClasses = 1 /\ ~FileContent.isAngularComponent
                                   /\ ~FileContent.isAngularDirective
       \/ FileContent.viewChildsCount = 0
    => IsSkippedOk(FileResult) /\ SameOnReinspection

\* C8 amended: the same for a file with zero class declarations, or exactly one
\* class that has no component/directive annotation, or exactly one annotated
\* class and zero query-binding annotations (a file with more than one class
\* gets Unknown whatever else it holds).
C8_SkippedSingleClassFilesAreOk ==
    /\ insp.pc = "resolved"
    /\ \/ FileContent.nClasses = 0
       \/ FileContent.nClasses = 1 /\ ~FileContent.isAngularComponent
                                   /\ ~FileContent.isAngularDirective
       \/ FileContent.nClasses = 1 /\ FileContent.viewChildsCount = 0
    => IsSkippedOk(FileResult) /\ SameOnReinspection

\* a component with one class and no query binding was inspected twice
C8_Witness ==
    /\ insp.pc = "resolved"
    /\ runs = 2
    /\ FileContent.nClasses = 1
    /\ FileContent.isAngularComponent
    /\ FileContent.viewChildsCount = 0
    /\ IsSkippedOk(FileResult)

\* classifying the i-th binding raises an exception that is not the missing
\* target: the template of a string-selected binding does not parse
ClassificationFault(i) ==
    /\ FileContent.bindings[i].childSelector.quoted
    /\ ~The(insp.template).valid

\* C9: a binding whose classification raises an exception other than the
\* missing target gets an unevaluated Unknown verdict carrying the exception's
\* message, and the file verdict holds exactly one binding verdict per
\* enumerated binding, in declaration order.
C9_FaultIsUnknownAndLoopContinues ==
    EvaluatedFile =>
        /\ Len(BindingVerdicts) = Len(FileContent.bindings)
        /\ \A i \in 1..Len(FileContent.bindings) :
              /\ BindingVerdicts[i].name = FileContent.bindings[i].propName
              /\ ClassificationFault(i) =>
                    /\ BindingVerdicts[i].status = Unknown
                    /\ ~BindingVerdicts[i].processed
                    /\ BindingVerdicts[i].notProcessedReason =
                          Some("Error processing - The provided template is invalid")

\* the first of two bindings raised the exception and the second has its verdict
C9_Witness ==
    /\ EvaluatedFile
    /\ Len(FileContent.bindings) = 2
    /\ ClassificationFault(1)
    /\ Len(BindingVerdicts) = 2
    /\ BindingVerdicts[2].name = "box"

(***************************************************************************)
(* What the template resolver is documented to return.                     *)
(***************************************************************************)
\* the markup of the first form present, in the order external relative
\* reference, single-quoted inline, backtick-delimited inline; nothing when no
\* form is present or the external reference is absolute
FirstFormPresent(f) ==
    IF The(f.content).decorator.templateUrl # Undefined
    THEN IF The(The(f.content).decorator.templateUrl) = "/t.html"
         THEN Undefined
         ELSE f.external
    ELSE IF The(f.content).decorator.inline # Undefined
    THEN The(f.content).decorator.inline
    ELSE The(f.content).decorator.multiline

\* C7: for a source with a component-annotation parameter block, what
\* getComponentTemplate returns is the markup of the first form present, so a
\* block whose only form is a backtick-delimited template yields that markup.
C7_FirstFormPresentIsReturned ==
    (insp.pc = "awaitingTemplate" /\ FileContent.decorator.present)
        => insp.template = FirstFormPresent(file)

(***************************************************************************)
(* What a failed read does to the batch.                                   *)
(***************************************************************************)
\* the read of the source of f, or of the external template it names, fails
ReadFails(f) ==
    \/ f.content = Undefined
    \/ /\ EarlyReturn(The(f.content)) = NotRun
       /\ getComponentTemplate(The(f.content)).pc = "readFile"
       /\ f.external = Undefined

\* the call of checkViewChilds has run to its end
Settled(call) == call.pc \in {"resolved", "stored", "rejected"}

\* C4: no single-file failure is fatal to the batch: a file whose source or
\* external template cannot be read ends with a verdict of status Unknown,
\* so no call of checkViewChilds ends without a verdict, no inspectProject
\* gives up before buildReport, and main does not give up before the
\* remaining projects
C4_NoFileFailureIsFatal ==
    /\ \A p \in ProjectIds : \A i \in FileIds(p) :
          Settled(calls[p][i]) =>
            /\ calls[p][i].result # Undefined
            /\ ReadFails(projects[p][i]) => The(calls[p][i].result).status = Some(Unknown)
    /\ \A p \in ProjectIds : ppc[p] # "rejected"
    /\ mainPc # "rejected"

(***************************************************************************)
(* What the report is documented to hold.                                  *)
(***************************************************************************)
\* the most severe of the statuses of the bindings: Unknown > Error > Warning > Ok
Severest(viewChilds) ==
    LET statuses == {viewChilds[j].status : j \in 1..Len(viewChilds)}
    IN IF Unknown \in statuses THEN Unknown
       ELSE IF Error \in statuses THEN Error
       ELSE IF Warning \in statuses THEN Warning
       ELSE Ok

\* the file has at least one evaluated binding
HasEvaluatedBinding(result) ==
    /\ result.viewChilds # Undefined
    /\ \E j \in 1..Len(The(result.viewChilds)) : The(result.viewChilds)[j].processed

\* the structured dumps of the report of p that list file i
DumpsHolding(p, i) ==
    {k \in 1..Len(report[p].written) :
        /\ report[p].written[k].chunk = "dump"
        /\ \E j \in 1..Len(report[p].written[k].files) :
              report[p].written[k].files[j].file = i}

\* the report of p has a structured dump labelled with the status
Serialized(p, status) ==
    \E k \in 1..Len(report[p].written) :
        /\ report[p].written[k].chunk = "dump"
        /\ report[p].written[k].status = isToString(Some(status))

\* C5: in the report every file with at least one evaluated binding is in
\* the structured dump of exactly one section, the one of the most severe
\* status over its bindings, and every non-empty bucket, the Ok one
\* included, is serialized
C5_EveryFileInDumpOfItsSeverestStatus ==
    \A p \in ProjectIds :
        ppc[p] = "done" =>
          /\ \A e \in Range(map[p]) :
                HasEvaluatedBinding(e.result) =>
                  /\ Cardinality(DumpsHolding(p, e.file)) = 1
                  /\ \A k \in DumpsHolding(p, e.file) :
                        report[p].written[k].status
                          = isToString(Some(Severest(The(e.result.viewChilds))))
          /\ \A status \in {Unknown, Error, Warning, Ok} :
                Bucket(map[p], status) # <<>> => Serialized(p, status)

(***************************************************************************)
(* The batch of one project.                                               *)
(***************************************************************************)
\* checkViewChilds of f run on its own, every read settling at once
Alone(f) ==
    IF SourceRead(f).pc = "readingTemplate"
    THEN IF TemplateRead(f).pc = "awaitingTemplate"
         THEN TemplateAwaited(f, TemplateRead(f))
         ELSE TemplateRead(f)
    ELSE IF SourceRead(f).pc = "awaitingTemplate"
    THEN TemplateAwaited(f, SourceRead(f))
    ELSE SourceRead(f)

\* the array buildReport filled for the status
BucketOf(p, status) ==
    CASE status = Unknown -> report[p].unprocessed
      [] status = Error -> report[p].errors
      [] status = Warning -> report[p].warnings
      [] status = Ok -> report[p].ok

\* every inspection of a project is started before inspectProject awaits
AllStartedBeforeAwait ==
    \A p \in ProjectIds :
        ppc[p] # "notStarted" => \A i \in FileIds(p) : calls[p][i].pc # "notStarted"

\* buildReport runs at most once, and only when every verdict is in the map
BuiltOnlyAfterAllStored ==
    \A p \in ProjectIds :
        /\ built[p] <= 1
        /\ built[p] = 1 =>
              /\ \A i \in FileIds(p) : calls[p][i].pc = "stored"
              /\ {e.file : e \in Range(map[p])} = FileIds(p)

\* whatever order the inspections completed in, a file is in the bucket of
\* the status its inspection alone returns, and in no other
MembershipIsOrderIndependent ==
    \A p \in ProjectIds :
        ppc[p] = "done" =>
          \A i \in FileIds(p) : \A status \in {Unknown, Error, Warning, Ok} :
              (\E j \in 1..Len(BucketOf(p, status)) : BucketOf(p, status)[j].file = i)
                <=> The(Alone(projects[p][i]).result).status = Some(status)

\* inspectProject does not end without one run of buildReport
BuiltOnce ==
    \A p \in ProjectIds : ppc[p] \in {"done", "rejected"} => built[p] = 1

\* when every read of the project succeeds, inspectProject ends with one run
BuiltOnceWhenReadsSucceed ==
    \A p \in ProjectIds :
        (\A i \in FileIds(p) : ~ReadFails(projects[p][i])) =>
          /\ ppc[p] # "rejected"
          /\ ppc[p] = "done" => built[p] = 1

\* C10: in inspectProject every file inspection is started before any is
\* awaited, buildReport runs exactly once and only after every verdict is
\* in the map, and the membership of each status bucket is the same for
\* every completion order of the inspections
C10_BatchThenOneReport ==
    /\ AllStartedBeforeAwait
    /\ BuiltOnlyAfterAllStored
    /\ MembershipIsOrderIndependent
    /\ BuiltOnce

(***************************************************************************)
(* What a diagnostic is documented to carry.                               *)
(***************************************************************************)
\* the property is referenced in the method: on a line between the method's
\* signature line and the closing brace that ends it (the methods of the
\* sources of FileInit hold no nested block, so the first lone brace after
\* the signature ends the method)
ReferencedInMethod(lines, propName, name) ==
    \E s \in 1..Len(lines) :
        /\ GetMethodStartRegex(lines[s], name)
        /\ \A t \in 1..(s - 1) : ~GetMethodStartRegex(lines[t], name)
        /\ \E i \in (s + 1)..Len(lines) :
              /\ PropertyUsageRegex(lines[i], propName)
              /\ \A j \in (s + 1)..i : ~IsLoneBrace(lines[j])
              /\ \E e \in (i + 1)..Len(lines) : IsLoneBrace(lines[e])

\* the earliest phase in which the property is referenced
EarliestReference(lines, propName) ==
    IF ReferencedInMethod(lines, propName, "constructor") THEN Construction
    ELSE IF ReferencedInMethod(lines, propName, "ngOnInit") THEN OnInit
    ELSE IF ReferencedInMethod(lines, propName, "ngAfterViewInit") THEN AfterViewInit
    ELSE Unspecified

\* the name a diagnostic gives to a declared mode
ModeName(D) ==
    CASE D = "Early" -> dsToString(Static)
      [] D = "Late" -> dsToString(NonStatic)
      [] D = "Unspecified" -> dsToString(0)

\* the verdict of the i-th binding is an Error or a Warning
IsErrorOrWarning(i) == BindingVerdicts[i].status \in {Error, Warning}

\* the verdict carries a diagnostic and the number of the line that declares
\* the property
CarriesDiagnosticAndLine(i) ==
    /\ BindingVerdicts[i].problems # Undefined
    /\ BindingVerdicts[i].lineNumber # Undefined
    /\ The(BindingVerdicts[i].lineNumber) \in 1..Len(FileContent.lines)
    /\ PropDeclarationRegex(FileContent.lines[The(BindingVerdicts[i].lineNumber)],
                            FileContent.bindings[i].propName)

\* the current mode of the diagnostic is the mode declared on the binding
CurrentModeAsDeclared(i) ==
    The(BindingVerdicts[i].problems).currentStatus
        = ModeName(DeclaredMode(FileContent.bindings[i]))

\* the first-used phase of the diagnostic is the earliest phase that
\* references the property
FirstUsedIsEarliestReference(i) ==
    The(BindingVerdicts[i].problems).firstUsedIn
        = lhToString(EarliestReference(FileContent.lines, FileContent.bindings[i].propName))

\* C11: every binding verdict with status Error or Warning carries a
\* diagnostic and a source line number; the diagnostic's current mode is the
\* mode declared on the binding (Early, Late or Unspecified) and its
\* first-used phase is the earliest of Construction, InitHook and
\* PostRenderHook in which the property is referenced, Unspecified if none
C11_ErrorOrWarningCarriesDiagnostic ==
    EvaluatedFile =>
        \A i \in 1..Len(FileContent.bindings) :
            IsErrorOrWarning(i) =>
                /\ CarriesDiagnosticAndLine(i)
                /\ CurrentModeAsDeclared(i)
                /\ FirstUsedIsEarliestReference(i)

(***************************************************************************)
(* What the branch switcher is documented to do.                           *)
(***************************************************************************)
\* the place of a command in the documented order
StepRank(command) ==
    CASE command = "reset" -> 1
      [] command = "fetch" -> 2
      [] command = "checkout" -> 3
      [] command = "fallback" -> 4
      [] command = "pull" -> 5

Ran(command) == \E k \in 1..Len(ran) : ran[k].command = command
Succeeded(command) == \E k \in 1..Len(ran) : ran[k].command = command /\ ran[k].ok
Failed(command) == \E k \in 1..Len(ran) : ran[k].command = command /\ ~ran[k].ok

\* the call was made on a repository that was not on the target branch
NotOnTarget == currentBranch # Undefined /\ The(currentBranch) # targetBranch

\* the commands run in the documented order, each at most once, and a call
\* that returned ran reset, fetch and the checkout of the target
StepsInOrder ==
    /\ \A j, k \in 1..Len(ran) : j < k => StepRank(ran[j].command) < StepRank(ran[k].command)
    /\ (NotOnTarget /\ cpc = "returned") => Ran("reset") /\ Ran("fetch") /\ Ran("checkout")

\* the fallback is tried only after the checkout of the target failed
FallbackOnlyAfterFailure == Ran("fallback") => Failed("checkout")

\* pull runs only after one of the two checkouts succeeded, and then it runs
PullOnlyAfterCheckout ==
    /\ Ran("pull") => Succeeded("checkout") \/ Succeeded("fallback")
    /\ (cpc = "returned" /\ (Succeeded("checkout") \/ Succeeded("fallback"))) => Ran("pull")

\* both checkouts failed and the function returned
Skipped == cpc = "returned" /\ Failed("checkout") /\ Failed("fallback")

\* a skipped repository is left reset, with no pending changes, on the branch
\* it was on
SkippedIsLeftReset ==
    Skipped => ~Ran("pull") /\ repo.branch = The(currentBranch) /\ ~repo.pending

\* C12: for a repository not on the target branch, checkoutRepoAt runs reset,
\* fetch, checkout of the target, checkout of the fallback (only if the
\* target's failed) and pull in that order; pull runs only if one of the two
\* checkouts succeeded; when both fail the function stops, leaving the
\* repository reset with no pending changes on the current branch
C12_StepsInOrderAndSkippedLeftReset ==
    NotOnTarget =>
        /\ StepsInOrder
        /\ FallbackOnlyAfterFailure
        /\ PullOnlyAfterCheckout
        /\ SkippedIsLeftReset

(***************************************************************************)
(* What the usage scan is documented to return.                            *)
(***************************************************************************)
\* a line strictly between the signature line and the boundary line found
\* references this.el
UsedBetween(lines, start, boundary) ==
    \E i \in (start + 1)..(boundary - 1) : PropertyUsageRegex(lines[i], "el")

\* a line textually identical to the boundary line occurs before it
BoundaryTextOccursEarlier(lines, boundary) ==
    \E i \in 1..(boundary - 1) : lines[i] = lines[boundary]

\* C13: whenever the signature line and the boundary line are both found,
\* isPropertyUsedInMethod returns true exactly when some line strictly
\* between the two references this.<propertyName>, also when a line
\* textually identical to the boundary line occurs earlier in the file
C13_UsedIffReferencedBetween ==
    scan.pc = "scanned" =>
        (scan.used <=> UsedBetween(tsFile, scan.start, scan.found))

(***************************************************************************)
(* The status of a file verdict and the bucket it lands in.                *)
(***************************************************************************)
\* the status is one of the four values of InspectionStatus
IsInspectionStatus(status) ==
    status \in {Some(Ok), Some(Warning), Some(Error), Some(Unknown)}

\* the places file i takes in the four arrays of the report of p
PlacesOf(p, i) ==
    {<<status, j>> \in {Unknown, Error, Warning, Ok} \X (1..Len(map[p])) :
        j <= Len(BucketOf(p, status)) /\ BucketOf(p, status)[j].file = i}

\* the file holds annotations the spotter counts but the binding pattern
\* matches none of
SpottedButNoneEnumerated(f) ==
    /\ f.content # Undefined
    /\ EarlyReturn(The(f.content)) = NotRun
    /\ The(f.content).bindings = <<>>

\* every verdict that is in the map has one of the four statuses
EveryVerdictHasStatus ==
    \A p \in ProjectIds : \A e \in Range(map[p]) : IsInspectionStatus(e.result.status)

\* C14: every FileInspectionResult checkViewChilds returns has a status among
\* Ok, Warning, Error and Unknown, so buildReport places every inspected file
\* in exactly one bucket, also a file whose query-binding annotations are
\* spotted but none matches the full binding pattern
C14_EveryVerdictHasStatusAndOneBucket ==
    \A p \in ProjectIds :
        /\ \A i \in FileIds(p) :
              calls[p][i].result # Undefined =>
                  IsInspectionStatus(The(calls[p][i].result).status)
        /\ ppc[p] = "done" =>
              \A i \in FileIds(p) : Cardinality(PlacesOf(p, i)) = 1

====
